---- MODULE Spec2Model ----
(***************************************************************************)
(* Placement engine of pysuchsel (class Suchsel in Suchsel.py): the sparse *)
(* grid, the accepted word list, the rule-usage counter, and the calls     *)
(* place, place_crossword and fill.  A call to place or place_crossword    *)
(* runs as a sequence of steps, one per placement attempt; fill runs in    *)
(* one step.  An exception leaving a call ends the run.                    *)
(***************************************************************************)
EXTENDS Integers, Sequences, FiniteSets, TLC

\* ---------------------------------------------------------------- bounds
\* Number of calls to place / place_crossword / fill in one run.
MaxCalls == 2

\* ------------------------------------------------ constructor arguments
Width == 4
Height == 3
Attempts == 2

\* ------------------------------------------------------- input alphabets
\* The eight rule symbols a DirectionSampler may return.
RULES == {"lr", "rl", "tb", "bt", "dbr", "dbl", "dtr", "dtl"}

\* Words handed to place and place_crossword (sequences of characters).
WORDS == { <<"A">>, <<"A", "B", "B">>, <<"A", "B", "B", "B">> }

\* Crossword marker characters.
MARKERS == {"1"}

\* crossword_marker = None
NoMarker == "None"

\* Filler sources: the k-th call of get() (k = 0, 1, ...) returns stream[k].
FILLERS == { [k \in 0..(Width * Height) |-> IF k % 2 = 0 THEN "A" ELSE "X"],
             [k \in 0..(Width * Height) |-> IF k % 2 = 0 THEN "X" ELSE "B"] }

\* --------------------------------------------------------- cell contents
\* A one-character str.
Letter(c) == [kind |-> "letter", ch |-> c, dir |-> ""]

VoidPlaceholder == [kind |-> "void", ch |-> "", dir |-> ""]

ArrowMarker(marking, direction) == [kind |-> "arrow", ch |-> marking, dir |-> direction]

\* dict.get on a missing key.
None == [kind |-> "none", ch |-> "", dir |-> ""]

\* self._grid.get(pos) on the dict g.
Get(g, pos) == IF pos \in DOMAIN g THEN g[pos] ELSE None

\* Faulty variant: two letters compare equal whatever their characters.
PyEq_same_kind(present, want) ==
    CASE present.kind = "letter" /\ want.kind = "letter" -> TRUE
      [] present.kind = "void" /\ want.kind = "void" -> TRUE
      [] OTHER -> FALSE

\* present == want_place, where want_place is a str, a VoidPlaceholder or an
\* ArrowMarker constructed for this attempt.  str compares by value,
\* VoidPlaceholder.__eq__ compares classes, ArrowMarker has no __eq__ and
\* compares by identity, so a fresh ArrowMarker equals nothing in the grid.
PyEq(present, want) ==
    CASE present.kind = "letter" /\ want.kind = "letter" -> present.ch = want.ch
      [] present.kind = "void" /\ want.kind = "void" -> TRUE
      [] OTHER -> FALSE

\* ------------------------------------------------------------ DIRECTIONS
DIRECTIONS(rule, x, y) ==
    CASE rule = "lr" -> <<x + 1, y>>
      [] rule = "rl" -> <<x - 1, y>>
      [] rule = "tb" -> <<x, y - 1>>
      [] rule = "bt" -> <<x, y + 1>>
      [] rule = "dbr" -> <<x + 1, y - 1>>
      [] rule = "dbl" -> <<x - 1, y - 1>>
      [] rule = "dtr" -> <<x + 1, y + 1>>
      [] rule = "dtl" -> <<x - 1, y + 1>>

\* ------------------------------------------------------------ _rulerange
\* The first n coordinates the generator yields.  For an unknown rule name
\* the generator yields the origin and raises NotImplementedError when the
\* next coordinate is requested: the result is then shorter than n.
RECURSIVE rulerange(_, _, _, _)
rulerange(x, y, rulename, n) ==
    IF n = 0 THEN <<>>
    ELSE IF n = 1 THEN << <<x, y>> >>
    ELSE CASE rulename = "lr" -> << <<x, y>> >> \o rulerange(x + 1, y, rulename, n - 1)
           [] rulename = "tb" -> << <<x, y>> >> \o rulerange(x, y + 1, rulename, n - 1)
           [] rulename = "dbr" -> << <<x, y>> >> \o rulerange(x + 1, y + 1, rulename, n - 1)
           [] rulename = "dbl" -> << <<x, y>> >> \o rulerange(x - 1, y + 1, rulename, n - 1)
           [] rulename = "dtr" -> << <<x, y>> >> \o rulerange(x + 1, y - 1, rulename, n - 1)
           [] rulename = "dtl" -> << <<x, y>> >> \o rulerange(x - 1, y - 1, rulename, n - 1)
           [] OTHER -> << <<x, y>> >>

\* ------------------------------------------------------- _adjacent_fields
\* Faulty variant: no neighbour of a row or column cell is inspected.
adjacent_fields_none(x, y, rulename) ==
    IF rulename \in {"tb", "bt", "lr", "rl"}
    THEN [raises |-> FALSE, fields |-> << >>]
    ELSE [raises |-> TRUE, fields |-> << >>]

\* The two neighbours to inspect; raises NotImplementedError for any rule
\* that is neither a row nor a column rule.
adjacent_fields(x, y, rulename) ==
    IF rulename \in {"tb", "bt"}
    THEN [raises |-> FALSE, fields |-> << <<x - 1, y>>, <<x + 1, y>> >>]
    ELSE IF rulename \in {"lr", "rl"}
    THEN [raises |-> FALSE, fields |-> << <<x, y - 1>>, <<x, y + 1>> >>]
    ELSE [raises |-> TRUE, fields |-> <<>>]

\* ------------------------------------------------------------ _find_rule
Reversed(s) == [i \in 1..Len(s) |-> s[Len(s) + 1 - i]]

ArrowDirection(rule) ==
    CASE rule = "lr" -> "right"
      [] rule = "rl" -> "left"
      [] rule = "tb" -> "down"
      [] rule = "bt" -> "up"
      [] rule = "dbr" -> "down-right"
      [] rule = "dbl" -> "down-left"
      [] rule = "dtr" -> "up-right"
      [] rule = "dtl" -> "up-left"

\* Faulty variant: no VoidPlaceholder is appended.
wrap_no_void(word, rule, crossword_marker) ==
    LET letters == [n \in 1..Len(word) |-> Letter(word[n])]
    IN IF crossword_marker # NoMarker
       THEN << ArrowMarker(crossword_marker, ArrowDirection(rule)) >> \o letters
       ELSE letters

\* [ arrow_marker ] + list(word) + [ VoidPlaceholder() ] when a crossword
\* marker is given; word is a sequence of characters.
wrap(word, rule, crossword_marker) ==
    LET letters == [n \in 1..Len(word) |-> Letter(word[n])]
    IN IF crossword_marker # NoMarker
       THEN << ArrowMarker(crossword_marker, ArrowDirection(rule)) >>
            \o letters \o << VoidPlaceholder >>
       ELSE letters

req_width(seq, rule) ==
    IF rule \in {"lr", "rl"} THEN Len(seq)
    ELSE IF rule \in {"tb", "bt"} THEN 1
    ELSE Len(seq)

req_height(seq, rule) ==
    IF rule \in {"lr", "rl"} THEN 1
    ELSE IF rule \in {"tb", "bt"} THEN Len(seq)
    ELSE Len(seq)

\* Faulty variant: only rl reverses the sequence.
orient_rl_only(seq, rule) == IF rule = "rl" THEN Reversed(seq) ELSE seq

\* word = list(reversed(word)) for the reverse rules.
orient(seq, rule) == IF rule \in {"rl", "bt"} THEN Reversed(seq) ELSE seq

\* The rewriting of the reverse rules.
canonical(rule) == IF rule = "rl" THEN "lr" ELSE IF rule = "bt" THEN "tb" ELSE rule

\* rule is the symbol self._placement.event() returned.
find_rule(word, rule, crossword_marker) ==
    LET wrapped == wrap(word, rule, crossword_marker)
    IN [ word |-> orient(wrapped, rule),
         rule |-> canonical(rule),
         req_width |-> req_width(wrapped, rule),
         req_height |-> req_height(wrapped, rule) ]

\* -------------------------------------------------------- _attempt_place
\* Faulty variant: an occupied cell never counts as a conflict.
occupied_differently_never(present, want_place) == FALSE

\* (present is not None) and (present != want_place)
occupied_differently(present, want_place) ==
    present # None /\ ~PyEq(present, want_place)

\* Faulty variant: the sampled column is used as it is under every rule.
shift_x_none(rule, rx, n) == rx

\* src_x and src_y after the shift for the leftward and the upward rules.
shift_x(rule, rx, n) == IF rule \in {"dtl", "dbl"} THEN rx + n - 1 ELSE rx

shift_y(rule, ry, n) == IF rule \in {"dtr", "dtl"} THEN ry + n - 1 ELSE ry

\* Faulty variant: coinciding VoidPlaceholders count as overlap too.
counts_as_overlap_any(present, want_place) == PyEq(present, want_place)

\* (present == want_place) and isinstance(present, str)
counts_as_overlap(present, want_place) ==
    PyEq(present, want_place) /\ present.kind = "letter"

\* The validation loop from cell k on.  Returns "ok" with the number of
\* overlapping letters, "fail" for return False, "raise" for an exception.
RECURSIVE walk(_, _, _, _, _, _, _)
walk(g, word, coords, rule, crossword_marker, k, contiguous_letters) ==
    IF k > Len(word) THEN [status |-> "ok", contiguous_letters |-> contiguous_letters]
    ELSE IF k > Len(coords) THEN [status |-> "raise", contiguous_letters |-> contiguous_letters]
    ELSE
      LET want_place == word[k]
          x == coords[k][1]
          y == coords[k][2]
          present == Get(g, <<x, y>>)
          cl == IF counts_as_overlap(present, want_place)
                THEN contiguous_letters + 1 ELSE contiguous_letters
          adj == adjacent_fields(x, y, rule)
          Blocked(p) == LET adjacent_content == Get(g, p)
                        IN adjacent_content # None /\ adjacent_content.kind # "void"
      IN IF occupied_differently(present, want_place)
         THEN [status |-> "fail", contiguous_letters |-> cl]
         ELSE IF present = None /\ crossword_marker # NoMarker
         THEN IF adj.raises THEN [status |-> "raise", contiguous_letters |-> cl]
              ELSE IF \E i \in 1..Len(adj.fields) : Blocked(adj.fields[i])
              THEN [status |-> "fail", contiguous_letters |-> cl]
              ELSE walk(g, word, coords, rule, crossword_marker, k + 1, cl)
         ELSE walk(g, word, coords, rule, crossword_marker, k + 1, cl)

\* self._grid[(x, y)] = want_place on the dict g.
Store(g, pos, value) ==
    [p \in (DOMAIN g) \cup {pos} |-> IF p = pos THEN value ELSE g[p]]

\* The commit loop from cell k on.
RECURSIVE commit(_, _, _, _)
commit(g, word, coords, k) ==
    IF k > Len(word) THEN g
    ELSE commit(Store(g, coords[k], word[k]), word, coords, k + 1)

\* Faulty variant: the count of a rule already present is started again.
track_rule_restart(rls, rule) ==
    [r \in (DOMAIN rls) \cup {rule} |-> IF r = rule THEN 1 ELSE rls[r]]

\* self._rules[rule] += 1, creating the entry at 0 first.
track_rule(rls, rule) ==
    [r \in (DOMAIN rls) \cup {rule} |->
        IF r = rule THEN (IF rule \in DOMAIN rls THEN rls[rule] ELSE 0) + 1 ELSE rls[r]]

\* max_x and max_y of the attempt for `word` under the sampled `rule`.
max_x(word, rule, crossword_marker) == Width - find_rule(word, rule, crossword_marker).req_width
max_y(word, rule, crossword_marker) == Height - find_rule(word, rule, crossword_marker).req_height

\* The values random.randint(0, max) can return; when the word does not fit
\* (max < 0) no value is drawn and the attempt ignores it.
randint(max) == IF max < 0 THEN {0} ELSE 0..max

\* Faulty variant: the rule is counted before the candidate is validated.
attempt_place_counts_first(g, rls, word, rule, must_be_contiguous, crossword_marker, rx, ry) ==
    LET fr == find_rule(word, rule, crossword_marker)
        mx == Width - fr.req_width
        my == Height - fr.req_height
        src_x == shift_x(fr.rule, rx, Len(fr.word))
        src_y == shift_y(fr.rule, ry, Len(fr.word))
        coords == rulerange(src_x, src_y, fr.rule, Len(fr.word))
        w == walk(g, fr.word, coords, fr.rule, crossword_marker, 1, 0)
        counted == track_rule(rls, fr.rule)
    IN IF mx < 0 \/ my < 0
       THEN [status |-> "fail", grid |-> g, rules |-> counted]
       ELSE IF w.status # "ok"
       THEN [status |-> w.status, grid |-> g, rules |-> counted]
       ELSE IF must_be_contiguous /\ w.contiguous_letters = 0
       THEN [status |-> "fail", grid |-> g, rules |-> counted]
       ELSE [status |-> "ok",
             grid |-> commit(g, fr.word, coords, 1),
             rules |-> counted]

\* One placement attempt on grid g with rule counter rls: `rule` is the value
\* of self._placement.event(), rx and ry the values of random.randint(0, max_x)
\* and random.randint(0, max_y) (drawn only when the word fits).
attempt_place(g, rls, word, rule, must_be_contiguous, crossword_marker, rx, ry) ==
    LET fr == find_rule(word, rule, crossword_marker)
        mx == Width - fr.req_width
        my == Height - fr.req_height
        src_x == shift_x(fr.rule, rx, Len(fr.word))
        src_y == shift_y(fr.rule, ry, Len(fr.word))
        coords == rulerange(src_x, src_y, fr.rule, Len(fr.word))
        w == walk(g, fr.word, coords, fr.rule, crossword_marker, 1, 0)
    IN IF mx < 0 \/ my < 0
       THEN [status |-> "fail", grid |-> g, rules |-> rls]
       ELSE IF w.status # "ok"
       THEN [status |-> w.status, grid |-> g, rules |-> rls]
       ELSE IF must_be_contiguous /\ w.contiguous_letters = 0
       THEN [status |-> "fail", grid |-> g, rules |-> rls]
       ELSE [status |-> "ok",
             grid |-> commit(g, fr.word, coords, 1),
             rules |-> track_rule(rls, fr.rule)]

\* ---------------------------------------------------------- is_substring
\* Faulty variant: only a proper substring counts.
PyIn_proper(word, placed) ==
    /\ Len(word) < Len(placed)
    /\ \E off \in 0..(Len(placed) - Len(word)) :
          \A j \in 1..Len(word) : placed[off + j] = word[j]

\* Python's `word in placed` on two strings.
PyIn(word, placed) ==
    \E off \in 0..(Len(placed) - Len(word)) :
        \A j \in 1..Len(word) : placed[off + j] = word[j]

\* Faulty variant: the guard never fires.
is_substring_never(word, wordlist) == FALSE

is_substring(word, wordlist) ==
    \E n \in 1..Len(wordlist) : PyIn(word, wordlist[n])

\* ----------------------------------------------------------- _letters_idx
\* Building the index hashes every grid value; VoidPlaceholder defines
\* __eq__ without __hash__, so a grid holding one raises TypeError.
letters_idx_raises(g) == \E p \in DOMAIN g : g[p].kind = "void"

\* self._letters_idx[letter]: the positions holding the str `letter`.
letters_idx(g, letter) == {p \in DOMAIN g : g[p] = Letter(letter)}

\* ----------------------------------------------------------------- search
\* TRUE for a True result, FALSE for None.  `part` is non-empty.
RECURSIVE search(_, _, _, _, _)
search(g, part, x, y, rule) ==
    LET letter == part[1]
        remaining == Tail(part)
        pos == DIRECTIONS(rule, x, y)
    IN IF remaining = <<>> THEN TRUE
       ELSE IF pos \in DOMAIN g /\ PyEq(g[pos], Letter(letter))
       THEN search(g, remaining, pos[1], pos[2], rule)
       ELSE FALSE

\* ---------------------------------------------------------- is_coocurence
\* raises: TypeError from _letters_idx, KeyError when no cell holds
\* word[0], IndexError from search when word[1:] is empty.
is_coocurence(g, word) ==
    LET starts == letters_idx(g, word[1])
        count == Cardinality({ sr \in starts \X RULES :
                                 search(g, Tail(word), sr[1][1], sr[1][2], sr[2]) })
    IN IF letters_idx_raises(g)
       THEN [raises |-> TRUE, exception |-> "TypeError", value |-> FALSE]
       ELSE IF starts = {}
       THEN [raises |-> TRUE, exception |-> "KeyError", value |-> FALSE]
       ELSE IF Tail(word) = <<>>
       THEN [raises |-> TRUE, exception |-> "IndexError", value |-> FALSE]
       ELSE [raises |-> FALSE, exception |-> "", value |-> count > 1]

\* ------------------------------------------------------------------- void
\* Faulty variant: only letters count as occupied.
void_letters_only(g) ==
    Height * Width - Cardinality({p \in DOMAIN g : g[p].kind = "letter"})

\* The property void on the dict g.
void(g) == Height * Width - Cardinality(DOMAIN g)

\* ------------------------------------------------------------------- fill
\* Faulty variant: the loops nested the other way round (column by column).
FillPos_by_column(n) == << n \div Height, n % Height >>

\* Cell number n (0-based) in the order of the two nested loops.
FillPos(n) == << n % Width, n \div Width >>

\* The loop of fill from cell number n on; `used` counts the calls of
\* filler.get() so far.  Returns the grid and the positions get() was
\* called for, in call order.
RECURSIVE fill_loop(_, _, _, _, _)
fill_loop(g, filler, n, used, req) ==
    IF n >= Width * Height THEN [grid |-> g, req |-> req]
    ELSE IF FillPos(n) \notin DOMAIN g
    THEN fill_loop(Store(g, FillPos(n), Letter(filler[used])), filler, n + 1,
                   used + 1, Append(req, FillPos(n)))
    ELSE fill_loop(g, filler, n + 1, used, req)

\* ------------------------------------------------------------------ state
VARIABLES
    heap,           \* the dict objects, by reference
    grid,           \* self._grid: a reference into heap
    grid_previous,  \* self._grid_previous: a reference into heap, 0 = unset
    words,          \* self._words
    rules,          \* self._rules
    pc,             \* "idle", or the loop the running call is in, or "fatal"
    op,             \* the running (or last) call and its arguments
    i,              \* loop index of the running attempt loop
    calls,          \* number of calls started
    samples,        \* calls of self._placement.event() in this call
    ret,            \* result of the last finished call, or the exception it raised
    pre,            \* contents of the grid when the call was entered
    last,           \* the most recent placement attempt
    fillReq,        \* positions the last fill requested a filler for
    commits         \* number of placement attempts that committed so far

vars == << heap, grid, grid_previous, words, rules, pc, op, i, calls,
           samples, ret, pre, last, fillReq, commits >>

\* The dict self._grid refers to.
Grid == heap[grid]

NoOp == [name |-> "none", word |-> <<>>, contiguous |-> FALSE, marker |-> NoMarker]

NoAttempt == [rule |-> "none", status |-> "none", rx |-> -1, ry |-> -1]

\* __init__
Init ==
    /\ heap = << <<>> >>
    /\ grid = 1
    /\ grid_previous = 0
    /\ words = <<>>
    /\ rules = <<>>
    /\ pc = "idle"
    /\ op = NoOp
    /\ i = 0
    /\ calls = 0
    /\ samples = 0
    /\ ret = "none"
    /\ pre = <<>>
    /\ last = NoAttempt
    /\ fillReq = <<>>
    /\ commits = 0

\* Faulty variant: the accepted word list is consulted instead of the grid.
GridLen_of_words == Len(words)

\* len(self._grid)
GridLen == Cardinality(DOMAIN Grid)

\* place(word, contiguous) up to the first attempt: the alias of the grid
\* is stored, the substring guard may return False, otherwise _place enters
\* its first loop.
PlaceCall(word, contiguous) ==
    /\ pc = "idle"
    /\ calls < MaxCalls
    /\ calls' = calls + 1
    /\ op' = [name |-> "place", word |-> word, contiguous |-> contiguous, marker |-> NoMarker]
    /\ grid_previous' = grid
    /\ pre' = Grid
    /\ samples' = 0
    /\ i' = 0
    /\ last' = NoAttempt
    /\ IF is_substring(word, words)
       THEN pc' = "idle" /\ ret' = "false"
       ELSE /\ pc' = IF contiguous /\ GridLen > 0 THEN "place_contiguous" ELSE "place"
            /\ ret' = "none"
    /\ UNCHANGED << heap, grid, words, rules, fillReq, commits >>

\* One iteration of a loop of _place, and on success the rest of place:
\* the co-occurrence guard, the rollback assignment or the append.
PlaceAttempt(rule) ==
    /\ pc \in {"place_contiguous", "place"}
    /\ \E rx \in randint(max_x(op.word, rule, NoMarker)),
          ry \in randint(max_y(op.word, rule, NoMarker)) :
       \E r \in {attempt_place(Grid, rules, op.word, rule, pc = "place_contiguous", NoMarker, rx, ry)} :
       \E co \in {IF r.status = "ok" THEN is_coocurence(r.grid, op.word) ELSE [raises |-> FALSE, exception |-> "", value |-> FALSE]} :
          /\ samples' = samples + 1
          /\ heap' = [heap EXCEPT ![grid] = r.grid]
          /\ rules' = r.rules
          /\ commits' = IF r.status = "ok" THEN commits + 1 ELSE commits
          /\ last' = IF r.status = "ok"
                     THEN [rule |-> rule, status |-> "ok", rx |-> rx, ry |-> ry]
                     ELSE [rule |-> rule, status |-> r.status, rx |-> -1, ry |-> -1]
          /\ CASE r.status = "raise" ->
                   /\ pc' = "fatal" /\ ret' = "NotImplementedError"
                   /\ UNCHANGED << grid, words, i >>
               [] r.status = "ok" /\ co.raises ->
                   /\ pc' = "fatal" /\ ret' = co.exception
                   /\ UNCHANGED << grid, words, i >>
               [] r.status = "ok" /\ ~co.raises /\ co.value ->
                   /\ grid' = grid_previous
                   /\ pc' = "idle" /\ ret' = "false"
                   /\ UNCHANGED << words, i >>
               [] r.status = "ok" /\ ~co.raises /\ ~co.value ->
                   /\ words' = Append(words, op.word)
                   /\ pc' = "idle" /\ ret' = "true"
                   /\ UNCHANGED << grid, i >>
               [] r.status = "fail" /\ i + 1 < Attempts ->
                   /\ i' = i + 1
                   /\ UNCHANGED << grid, words, pc, ret >>
               [] r.status = "fail" /\ i + 1 >= Attempts /\ pc = "place_contiguous" ->
                   /\ i' = 0 /\ pc' = "place"
                   /\ UNCHANGED << grid, words, ret >>
               [] r.status = "fail" /\ i + 1 >= Attempts /\ pc = "place" ->
                   /\ pc' = "idle" /\ ret' = "false"
                   /\ UNCHANGED << grid, words, i >>
    /\ UNCHANGED << grid_previous, op, calls, pre, fillReq >>

\* place_crossword(word, crossword_marker) up to the first attempt.
CrosswordCall(word, crossword_marker) ==
    /\ pc = "idle"
    /\ calls < MaxCalls
    /\ calls' = calls + 1
    /\ op' = [name |-> "place_crossword", word |-> word, contiguous |-> (GridLen > 0),
              marker |-> crossword_marker]
    /\ pre' = Grid
    /\ samples' = 0
    /\ i' = 0
    /\ last' = NoAttempt
    /\ pc' = "crossword"
    /\ ret' = "none"
    /\ UNCHANGED << heap, grid, grid_previous, words, rules, fillReq, commits >>

\* Faulty variant: a committed crossword word is recorded as accepted too.
CrosswordAttempt_appends(rule) ==
    /\ pc = "crossword"
    /\ \E rx \in randint(max_x(op.word, rule, op.marker)),
          ry \in randint(max_y(op.word, rule, op.marker)) :
       \E r \in {attempt_place(Grid, rules, op.word, rule, op.contiguous, op.marker, rx, ry)} :
          /\ samples' = samples + 1
          /\ heap' = [heap EXCEPT ![grid] = r.grid]
          /\ rules' = r.rules
          /\ words' = IF r.status = "ok" THEN Append(words, op.word) ELSE words
          /\ commits' = IF r.status = "ok" THEN commits + 1 ELSE commits
          /\ last' = IF r.status = "ok"
                     THEN [rule |-> rule, status |-> "ok", rx |-> rx, ry |-> ry]
                     ELSE [rule |-> rule, status |-> r.status, rx |-> -1, ry |-> -1]
          /\ CASE r.status = "raise" ->
                   /\ pc' = "fatal" /\ ret' = "NotImplementedError" /\ i' = i
               [] r.status = "ok" ->
                   /\ pc' = "idle" /\ ret' = "true" /\ i' = i
               [] r.status = "fail" /\ i + 1 < Attempts ->
                   /\ i' = i + 1 /\ UNCHANGED << pc, ret >>
               [] r.status = "fail" /\ i + 1 >= Attempts ->
                   /\ pc' = "idle" /\ ret' = "false" /\ i' = i
    /\ UNCHANGED << grid, grid_previous, op, calls, pre, fillReq >>

\* One iteration of the loop of place_crossword.
CrosswordAttempt(rule) ==
    /\ pc = "crossword"
    /\ \E rx \in randint(max_x(op.word, rule, op.marker)),
          ry \in randint(max_y(op.word, rule, op.marker)) :
       \E r \in {attempt_place(Grid, rules, op.word, rule, op.contiguous, op.marker, rx, ry)} :
          /\ samples' = samples + 1
          /\ heap' = [heap EXCEPT ![grid] = r.grid]
          /\ rules' = r.rules
          /\ commits' = IF r.status = "ok" THEN commits + 1 ELSE commits
          /\ last' = IF r.status = "ok"
                     THEN [rule |-> rule, status |-> "ok", rx |-> rx, ry |-> ry]
                     ELSE [rule |-> rule, status |-> r.status, rx |-> -1, ry |-> -1]
          /\ CASE r.status = "raise" ->
                   /\ pc' = "fatal" /\ ret' = "NotImplementedError" /\ i' = i
               [] r.status = "ok" ->
                   /\ pc' = "idle" /\ ret' = "true" /\ i' = i
               [] r.status = "fail" /\ i + 1 < Attempts ->
                   /\ i' = i + 1 /\ UNCHANGED << pc, ret >>
               [] r.status = "fail" /\ i + 1 >= Attempts ->
                   /\ pc' = "idle" /\ ret' = "false" /\ i' = i
    /\ UNCHANGED << grid, grid_previous, words, op, calls, pre, fillReq >>

\* fill(filler)
Fill(filler) ==
    /\ pc = "idle"
    /\ calls < MaxCalls
    /\ calls' = calls + 1
    /\ op' = [name |-> "fill", word |-> <<>>, contiguous |-> FALSE, marker |-> NoMarker]
    /\ pre' = Grid
    /\ LET f == fill_loop(Grid, filler, 0, 0, <<>>)
       IN /\ heap' = [heap EXCEPT ![grid] = f.grid]
          /\ fillReq' = f.req
    /\ samples' = 0
    /\ last' = NoAttempt
    /\ ret' = "none"
    /\ UNCHANGED << grid, grid_previous, words, rules, pc, i, commits >>

Next ==
    \/ \E word \in WORDS, marker \in MARKERS : CrosswordCall(word, marker)
    \/ \E rule \in RULES : CrosswordAttempt(rule)
    \/ \E word \in WORDS, contiguous \in BOOLEAN : PlaceCall(word, contiguous)
    \/ \E rule \in RULES : PlaceAttempt(rule)
    \/ \E filler \in FILLERS : Fill(filler)

Spec == Init /\ [][Next]_vars

\* --------------------------------------------------------- shape of state
TypeOK ==
    /\ grid = 1
    /\ grid_previous \in {0, 1}
    /\ pc \in {"idle", "place_contiguous", "place", "crossword", "fatal"}
    /\ i \in 0..(Attempts - 1)
    /\ calls \in 0..MaxCalls
    /\ ret \in {"none", "true", "false", "NotImplementedError", "TypeError", "KeyError", "IndexError"}
    /\ (pc = "fatal") <=> (ret \notin {"none", "true", "false"})
    /\ commits \in 0..MaxCalls

\* ------------------------------------------------- vocabulary of the claims
\* The width x height rectangle.
Rect == (0..(Width - 1)) \X (0..(Height - 1))

\* w occurs in p as a run of consecutive characters.
Occurs(w, p) ==
    \E off \in 0..(Len(p) - Len(w)) : SubSeq(p, off + 1, off + Len(w)) = w

\* The eight directions as steps on the lattice.
Deltas == { d \in (-1..1) \X (-1..1) : d # <<0, 0>> }

\* g spells w letter for letter from cell p along direction d.
Reads(g, w, p, d) ==
    \A k \in 1..Len(w) :
        LET c == << p[1] + (k - 1) * d[1], p[2] + (k - 1) * d[2] >>
        IN c \in DOMAIN g /\ g[c] = Letter(w[k])

\* Number of readings of w in g over all start cells and all 8 directions.
Readings(g, w) ==
    Cardinality({ pd \in (DOMAIN g) \X Deltas : Reads(g, w, pd[1], pd[2]) })

\* A call of place has just returned False / True.
PlaceFailed == pc = "idle" /\ op.name = "place" /\ ret = "false"
PlaceSucceeded == pc = "idle" /\ op.name = "place" /\ ret = "true"

\* C1: whenever place returns failure, the Grid after the call equals the
\* Grid before the call cell for cell.
C1_FailedPlaceRestoresGrid == PlaceFailed => Grid = pre

\* C2: every key of the Grid lies inside the width x height rectangle, in
\* every reachable state (so every commit wrote only inside it).
C2_CellsInsideRectangle == DOMAIN Grid \subseteq Rect

\* A three-letter word committed under dtl, the rule that shifts the origin
\* in both axes, reaching the top left corner.
C2_Witness ==
    /\ last.status = "ok" /\ last.rule = "dtl" /\ Len(op.word) = 3
    /\ <<0, 0>> \in DOMAIN Grid /\ <<2, 2>> \in DOMAIN Grid

\* C3: a call place(word) with word a substring of (or equal to) an accepted
\* word returns False in its first step: no rule is sampled and the Grid,
\* the accepted word list and the rule-usage counter are unchanged.
C3_SubstringRejectedUntouched ==
    [][ ( /\ pc = "idle" /\ calls' = calls + 1 /\ op'.name = "place"
          /\ \E n \in 1..Len(words) : Occurs(op'.word, words[n]) )
        => ( /\ pc' = "idle" /\ ret' = "false" /\ samples' = 0
             /\ heap' = heap /\ grid' = grid /\ words' = words /\ rules' = rules ) ]_vars

\* place was called with a proper substring of the accepted word and failed
\* without sampling a rule.
C3_Witness ==
    /\ PlaceFailed /\ samples = 0 /\ Len(words) = 1
    /\ Occurs(op.word, words[1]) /\ Len(op.word) < Len(words[1])
    /\ Grid = pre

\* C4 (as stated): no later accepted word is a substring of, a superstring
\* of, or equal to an earlier accepted word.
C4_NoSubSuperEqualPair ==
    \A a, b \in 1..Len(words) :
        a < b => ~Occurs(words[b], words[a]) /\ ~Occurs(words[a], words[b])

\* C4 (amended): no later accepted word is a substring of or equal to an
\* earlier accepted word.
C4_NoLaterSubstring ==
    \A a, b \in 1..Len(words) : a < b => ~Occurs(words[b], words[a])

\* Two words were accepted.
C4_Witness == Len(words) = 2 /\ PlaceSucceeded

\* C5: when an attempt of place(word) has committed, place returns False
\* if and only if the complete word can be read more than once in the Grid;
\* otherwise the word is appended and place returns True.
C5_FailsIffReadTwice ==
    (pc = "idle" /\ op.name = "place" /\ last.status = "ok")
    => /\ (ret = "false") <=> (Readings(Grid, op.word) > 1)
       /\ (ret = "true") <=> (Readings(Grid, op.word) = 1)
       /\ (ret = "true") => (Len(words) > 0 /\ words[Len(words)] = op.word)

\* C6: every accepted word can be read in the Grid, from some start cell
\* along one of the 8 directions, in every state after its acceptance.
C6_AcceptedWordsStayReadable ==
    \A n \in 1..Len(words) : Readings(Grid, words[n]) >= 1

\* After a word was accepted, a later crossword placement committed on top
\* of the same Grid, sharing a letter cell with it.
C6_Witness ==
    /\ Len(words) = 1 /\ pc = "idle" /\ op.name = "place_crossword"
    /\ ret = "true" /\ Grid # pre

\* C7: no call of place or place_crossword ends in a fatal error (the
\* inputs of the model are non-empty words and the 8 valid rules).
C7_NoFatalError == pc # "fatal"

\* C8: fill writes exactly the cells of the rectangle that were absent,
\* requests one filler character per such cell in row-major order, leaves
\* every occupied cell unchanged, and leaves no cell of the rectangle absent.
RowMajorBefore(p, q) == p[2] < q[2] \/ (p[2] = q[2] /\ p[1] < q[1])

C8_FillWritesExactlyAbsentCells ==
    (pc = "idle" /\ op.name = "fill")
    => /\ Rect \subseteq DOMAIN Grid
       /\ DOMAIN Grid = (DOMAIN pre) \cup Rect
       /\ \A p \in DOMAIN pre : Grid[p] = pre[p]
       /\ Len(fillReq) = Cardinality(Rect \ DOMAIN pre)
       /\ { fillReq[k] : k \in 1..Len(fillReq) } = Rect \ DOMAIN pre
       /\ \A a, b \in 1..Len(fillReq) : a < b => RowMajorBefore(fillReq[a], fillReq[b])
       /\ \E f \in FILLERS : \A k \in 1..Len(fillReq) : Grid[fillReq[k]] = Letter(f[k - 1])

\* fill ran on a Grid holding an ArrowMarker, a letter and a VoidMarker.
C8_Witness ==
    /\ pc = "idle" /\ op.name = "fill" /\ Len(fillReq) > 0
    /\ \E p \in DOMAIN pre : pre[p].kind = "arrow"
    /\ \E p \in DOMAIN pre : pre[p].kind = "void"
    /\ \E p \in DOMAIN pre : pre[p].kind = "letter"

\* C9: place_crossword(word, marker) on an empty Grid under rule tb: a
\* committed attempt leaves exactly the ArrowMarker with the marker at the
\* sampled origin, the letters in order below it and a VoidMarker below the
\* last letter; when len(word) + 2 exceeds the height the attempt fails and
\* the Grid stays empty.
C9_CrosswordTopToBottom ==
    (op.name = "place_crossword" /\ pre = <<>> /\ last.rule = "tb")
    => /\ (Len(op.word) + 2 > Height) => (last.status = "fail" /\ Grid = <<>>)
       /\ (last.status = "ok") =>
            LET n == Len(op.word)
                x == last.rx
                y == last.ry
            IN /\ DOMAIN Grid = { <<x, y + k>> : k \in 0..(n + 1) }
               /\ Grid[<<x, y>>].kind = "arrow" /\ Grid[<<x, y>>].ch = op.marker
               /\ \A k \in 1..n : Grid[<<x, y + k>>] = Letter(op.word[k])
               /\ Grid[<<x, y + n + 1>>] = VoidPlaceholder

\* A crossword word was committed under tb on the empty Grid.
C9_Witness ==
    /\ op.name = "place_crossword" /\ pre = <<>> /\ ret = "true"
    /\ last.rule = "tb" /\ last.status = "ok"

\* An attempt for op.word is about to be made, with or without the overlap
\* requirement.
AttemptPending == pc \in {"place_contiguous", "place", "crossword"}
MustOverlap == IF pc = "crossword" THEN op.contiguous ELSE pc = "place_contiguous"

ReversePairs == { <<"rl", "lr">>, <<"bt", "tb">> }
CanonicalRules == {"lr", "tb", "dbr", "dbl", "dtr", "dtl"}

\* At every origin the attempt for op.word under a reverse rule gives the
\* same outcome, Grid and rule counter as the attempt for the reversed word
\* under the canonical rule.
ReverseAgreesWithCanonical ==
    \A pr \in ReversePairs :
        \A rx \in randint(max_x(op.word, pr[1], op.marker)),
           ry \in randint(max_y(op.word, pr[1], op.marker)) :
            attempt_place(Grid, rules, op.word, pr[1], MustOverlap, op.marker, rx, ry)
            = attempt_place(Grid, rules, Reversed(op.word), pr[2], MustOverlap, op.marker, rx, ry)

\* C10 (as stated): for every pending attempt, of place and of
\* place_crossword alike, the reverse rule on the word agrees with the
\* canonical rule on the reversed word, and the counter has canonical keys.
C10_ReverseRuleEquivalent ==
    /\ AttemptPending => ReverseAgreesWithCanonical
    /\ DOMAIN rules \subseteq CanonicalRules

\* C10 (amended): the same for attempts made without a crossword marker;
\* and a word place committed under a reverse rule left the Grid that the
\* reversed word under the canonical rule produces at the same origin.
C10_ReverseRuleEquivalentForPlace ==
    /\ (AttemptPending /\ op.marker = NoMarker) => ReverseAgreesWithCanonical
    /\ DOMAIN rules \subseteq CanonicalRules
    /\ \A pr \in ReversePairs :
         (op.name = "place" /\ last.status = "ok" /\ last.rule = pr[1])
         => \E must \in BOOLEAN :
              LET r == attempt_place(pre, <<>>, Reversed(op.word), pr[2], must,
                                     NoMarker, last.rx, last.ry)
              IN r.status = "ok" /\ r.grid = Grid /\ pr[2] \in DOMAIN rules

\* place committed a three-letter word under bt on a Grid that already had
\* content.
C10_Witness ==
    /\ op.name = "place" /\ last.status = "ok" /\ last.rule = "bt"
    /\ Len(op.word) = 3 /\ pre # <<>>

\* ---------------------------------------------------------------- C11
\* Every candidate (rule, origin) the pending attempt can draw.
Candidates ==
    { c \in RULES \X (0..(Width - 1)) \X (0..(Height - 1)) :
        /\ c[2] \in randint(max_x(op.word, c[1], op.marker))
        /\ c[3] \in randint(max_y(op.word, c[1], op.marker)) }

\* C11: a placement attempt that returns failure leaves the Grid and the
\* rule-usage counter exactly as they were, with no prefix of the word
\* written, and the same candidate repeated on the Grid it left behind
\* fails again; so after a failing attempt of a call the Grid is still
\* the Grid the call started with.
C11_FailedAttemptChangesNothing ==
    /\ AttemptPending =>
          \A c \in Candidates :
             LET r == attempt_place(Grid, rules, op.word, c[1], MustOverlap,
                                    op.marker, c[2], c[3])
             IN r.status = "fail" =>
                   /\ r.grid = Grid
                   /\ r.rules = rules
                   /\ attempt_place(r.grid, r.rules, op.word, c[1], MustOverlap,
                                    op.marker, c[2], c[3]) = r
    /\ last.status = "fail" => Grid = pre

\* A three-letter word has just failed under lr on a Grid with content:
\* it fits the width, so an occupant or the missing overlap rejected it.
C11_Witness ==
    /\ last.status = "fail" /\ last.rule = "lr"
    /\ op.name = "place" /\ Len(op.word) = 3
    /\ pre # << >>


\* ---------------------------------------------------------------- C12
\* The cells a sequence of n items covers when its bounding box has its
\* top-left corner at (rx, ry): a row, a column, the falling diagonal
\* (dbr, dtl) or the rising diagonal (dbl, dtr).
PlacedCells(rule, rx, ry, n) ==
    CASE rule \in {"lr", "rl"} -> { << rx + k, ry >> : k \in 0..(n - 1) }
      [] rule \in {"tb", "bt"} -> { << rx, ry + k >> : k \in 0..(n - 1) }
      [] rule \in {"dbr", "dtl"} -> { << rx + k, ry + k >> : k \in 0..(n - 1) }
      [] rule \in {"dbl", "dtr"} -> { << rx + n - 1 - k, ry + k >> : k \in 0..(n - 1) }

\* The cells the last committed attempt of the current call wrote.
LastCells ==
    PlacedCells(last.rule, last.rx, last.ry,
                IF op.name = "place_crossword" THEN Len(op.word) + 2 ELSE Len(op.word))

\* A letter of the committed word lies on a cell that held the same letter
\* when the call started.
SharesLetterCell ==
    \E p \in LastCells \cap DOMAIN pre :
        /\ Grid[p].kind = "letter"
        /\ pre[p] = Grid[p]

CrosswordSucceeded == pc = "idle" /\ op.name = "place_crossword" /\ ret = "true"

\* C12: place_crossword on a Grid that already has content returns success
\* only if at least one letter of the word lies on a cell that already held
\* that letter (coinciding VoidMarkers alone do not qualify); on an empty
\* Grid the overlap is not required.
C12_CrosswordSharesLetter ==
    /\ (CrosswordSucceeded /\ pre # << >>) => SharesLetterCell
    /\ (op.name = "place_crossword" /\ pre = << >>) => ~op.contiguous

\* A crossword word was committed across an earlier one.
C12_Witness ==
    /\ CrosswordSucceeded /\ pre # << >>
    /\ \E p \in DOMAIN pre : pre[p].kind = "arrow"
    /\ Cardinality(DOMAIN Grid) = Cardinality(DOMAIN pre) + 2


\* ---------------------------------------------------------------- C13
\* The number of attempts a call may make: the budget, or twice the budget
\* for a contiguous place on a Grid with content.
AttemptBound ==
    IF op.name = "place" /\ op.contiguous /\ pre # << >>
    THEN 2 * Attempts
    ELSE Attempts

\* The attempts of a call stay within the bound, an attempt is pending only
\* while the bound is not exhausted, and no attempt follows a committed one.
AttemptBudgetKept ==
    /\ samples <= AttemptBound
    /\ AttemptPending => (samples < AttemptBound /\ last.status # "ok")

\* C13: every call ends with a boolean result after at most N attempts
\* (place_crossword, and place without contiguity or on an empty Grid) or
\* 2N attempts (contiguous place on a Grid with content), one sampled rule
\* per attempt, and none after the first committed attempt.
C13_BooleanWithinBudget ==
    /\ AttemptBudgetKept
    /\ ret \in {"none", "true", "false"}


\* ---------------------------------------------------------------- C14
ContiguousOnContent == op.name = "place" /\ op.contiguous /\ pre # << >>

\* C14: in place(word, contiguous=True) on a Grid with content an attempt
\* without the overlap requirement is pending only after N attempts with
\* the requirement have all failed; an attempt that commits while the
\* requirement is enforced shares a letter cell with the earlier content;
\* when contiguity is not requested or the Grid is empty no attempt
\* enforces the requirement.
C14_OverlapFirstThenFree ==
    /\ pc = "place_contiguous" => (ContiguousOnContent /\ samples = i)
    /\ (pc = "place" /\ ContiguousOnContent) =>
          (samples = Attempts + i /\ Grid = pre)
    /\ (ContiguousOnContent /\ last.status = "ok" /\ samples <= Attempts) =>
          SharesLetterCell

\* A contiguous place was accepted within the first N attempts.
C14_Witness ==
    /\ ContiguousOnContent /\ PlaceSucceeded
    /\ last.status = "ok" /\ samples <= Attempts


\* ---------------------------------------------------------------- C15
\* The two cells next to p across the line of a row or column rule.
Orthogonal(rule, p) ==
    IF rule \in {"lr", "rl"}
    THEN { << p[1], p[2] - 1 >>, << p[1], p[2] + 1 >> }
    ELSE { << p[1] - 1, p[2] >>, << p[1] + 1, p[2] >> }

\* C15: when a crossword attempt commits, its rule is a row or column
\* rule and every cell of the wrapped sequence that was empty before the
\* commit had, across the line, only neighbours that were absent or held
\* a VoidMarker: no letter and no ArrowMarker.  Cells that coincide with
\* equal earlier content are exempt.
C15_NewCrosswordCellsStandAlone ==
    (op.name = "place_crossword" /\ last.status = "ok") =>
        /\ last.rule \in {"lr", "rl", "tb", "bt"}
        /\ \A p \in LastCells \ DOMAIN pre :
              \A q \in Orthogonal(last.rule, p) :
                 q \in DOMAIN pre => pre[q].kind = "void"

\* A crossword word was committed across a placed word whose other letters
\* stay beside it.
C15_Witness ==
    /\ CrosswordSucceeded
    /\ LastCells \ DOMAIN pre # {}
    /\ \E p \in DOMAIN pre \ LastCells : pre[p].kind = "letter"


\* ---------------------------------------------------------------- C16
\* C16: the Grid only grows: every cell that was occupied when the current
\* call started is still occupied and holds the same content, whatever the
\* call committed or filled; and a committed attempt met no existing
\* ArrowMarker on its path (an attempt meeting different content or any
\* existing ArrowMarker is rejected).
C16_GridOnlyGrows ==
    /\ \A p \in DOMAIN pre : p \in DOMAIN Grid /\ Grid[p] = pre[p]
    /\ last.status = "ok" =>
          \A p \in LastCells \cap DOMAIN pre : pre[p].kind # "arrow"

\* A placed word was committed partly over equal earlier letters and partly
\* on cells that were absent.
C16_Witness ==
    /\ op.name = "place" /\ last.status = "ok"
    /\ LastCells \cap DOMAIN pre # {}
    /\ LastCells \ DOMAIN pre # {}


\* ---------------------------------------------------------------- C17
\* C17: the void count is the number of absent cells of the rectangle and
\* lies between 0 and width * height, VoidMarker and ArrowMarker cells
\* counting as occupied; after fill it is 0.
C17_VoidCountsAbsentCells ==
    /\ void(Grid) = Cardinality(Rect \ DOMAIN Grid)
    /\ void(Grid) \in 0..(Width * Height)
    /\ op.name = "fill" => void(Grid) = 0

\* A Grid that holds a committed crossword word, ArrowMarker and VoidMarker
\* included, and still has absent cells.
C17_Witness ==
    /\ \E p \in DOMAIN Grid : Grid[p].kind = "void"
    /\ \E p \in DOMAIN Grid : Grid[p].kind = "arrow"
    /\ void(Grid) = Width * Height - 3


\* ---------------------------------------------------------------- C18
\* No crossword word was committed and fill has not run: the Grid holds
\* letters only and still has an absent cell.
PlaceCallsOnly ==
    /\ \A p \in DOMAIN Grid : Grid[p].kind = "letter"
    /\ void(Grid) > 0

\* C18: in every state reached by place calls only, each word of the
\* accepted word list can be read in the Grid exactly once over all start
\* cells and all 8 directions.
C18_AcceptedWordsReadOnce ==
    (PlaceCallsOnly /\ pc = "idle") =>
        \A n \in 1..Len(words) : Readings(Grid, words[n]) = 1


\* ---------------------------------------------------------------- C19
\* C19: the accepted word list changes only in the step in which place
\* returns true, and then exactly the placed word is appended at its end;
\* a failing place, every place_crossword (success or failure) and fill
\* leave the list unchanged, so no crossword word ever enters it.
C19_WordsChangeOnlyOnAcceptedPlace ==
    [][ LET placeReturnsTrue ==
              /\ op.name = "place" /\ pc \in {"place_contiguous", "place"}
              /\ pc' = "idle" /\ ret' = "true"
        IN IF placeReturnsTrue
           THEN words' = Append(words, op.word)
           ELSE words' = words ]_vars

\* place_crossword returned true while the accepted word list holds the
\* one word placed before it.
C19_Witness == CrosswordSucceeded /\ Len(words) = 1


\* ---------------------------------------------------------------- C20
RECURSIVE CountSum(_, _)
\* The sum of the counts stored under the keys in `keys`.
CountSum(rls, keys) ==
    IF keys = {}
    THEN 0
    ELSE LET k == CHOOSE k \in keys : TRUE
         IN rls[k] + CountSum(rls, keys \ {k})

\* C20: the rule-usage counter has keys only among lr, tb, dbr, dbl, dtr
\* and dtl (never rl or bt), every stored count is at least 1, and the
\* counts add up to the number of placement attempts that committed so
\* far, commits of a place call the co-occurrence guard rejected included.
C20_RuleCounterCountsCommits ==
    /\ DOMAIN rules \subseteq CanonicalRules
    /\ \A k \in DOMAIN rules : rules[k] >= 1
    /\ CountSum(rules, DOMAIN rules) = commits

\* A second commit, sampled as rl or bt and then rejected by the
\* co-occurrence guard, was counted under the rule of the first commit.
C20_Witness ==
    /\ PlaceFailed /\ last.status = "ok" /\ last.rule \in {"rl", "bt"}
    /\ commits = 2
    /\ \E k \in DOMAIN rules : rules[k] = 2


====
